---- MODULE Spec2Model ----
(***************************************************************************)
(* The animated-gradient renderer: the GradientRenderer engine of          *)
(* lib/webgl/gradient-renderer.ts with the colour model of lib/webgl/types *)
(* and the GPU helpers of lib/webgl/shaders and lib/webgl/mesh, driven by  *)
(* the host's requestAnimationFrame queue; the AnimatedGradient component  *)
(* of components/ui/AnimatedGradient.tsx that mounts one engine on a       *)
(* canvas; hexToRGB applied to strings on its own; and the colour          *)
(* arithmetic (interpolateColor, the shader's blendColors and cycle phase) *)
(* applied to its arguments on its own.                                    *)
(*                                                                         *)
(*   Spec            the engine under every sequence of calls of its       *)
(*                   methods                                               *)
(*   AdapterSpec     one AnimatedGradient from its mount to after its      *)
(*                   unmount                                               *)
(*   ColorSpec       hexToRGB applied to one input string                  *)
(*   ObserverSpec    the engine with its observers getState and isRunning  *)
(*                   and the grain fields of its configuration             *)
(*   ArithmeticSpec  one application of interpolateColor, blendColors or   *)
(*                   the cycle phase                                       *)
(*                                                                         *)
(* Units.  The code's fractional numbers are kept as scaled integers:      *)
(*   cycleSpeed, fullCycleDuration   in tenths      (4.5  is 45)           *)
(*   grainIntensity                  in hundredths  (0.03 is 3)            *)
(*   a colour channel                as the byte b of the value b / 255    *)
(*   the time uniform                in milliseconds (the code pushes      *)
(*                                   milliseconds * 0.001)                 *)
(* A hex colour string is the sequence of its characters.                  *)
(***************************************************************************)
EXTENDS Integers, Sequences, FiniteSets, TLC

\* ------------------------------------------------------------------ bounds

\* The clock (performance.now and the frame timestamps) runs over 0..MaxTime.
MaxTime == 1

\* Animation-frame handles are drawn from 1..MaxFrameIds.
MaxFrameIds == 3

\* interpolateColor is computed in a binary floating-point format with
\* SignificandBits bits of significand (the code's numbers have 53) whose
\* smallest spacing is 2^-FractionBits; a value v is held as the integer
\* v * 2^FractionBits.
SignificandBits == 3

FractionBits == 5

\* blendColors is applied at the positions n / (6 * Subdivisions), every
\* segment of the palette cut into Subdivisions parts.
Subdivisions == 4

\* The cycle phase is computed at the times 0..MaxCycleTime, in tenths of a
\* second.
MaxCycleTime == 20

\* hexToRGB is applied to every string of up to MaxHexLen characters over
\* RawChars.
MaxHexLen == 8

NULL == "null"

\* animationFrameId: null (frame handles are positive numbers)
NoFrame == 0

\* ------------------------------------------------------------- colour model

HexChars == <<"0", "1", "2", "3", "4", "5", "6", "7", "8", "9",
              "a", "b", "c", "d", "e", "f">>

UpperHexChars == <<"A", "B", "C", "D", "E", "F">>

\* [a-f\d] under the i flag
IsHexDigit(c) ==
    \/ \E i \in DOMAIN HexChars : HexChars[i] = c
    \/ \E i \in DOMAIN UpperHexChars : UpperHexChars[i] = c

\* the value parseInt gives one hex digit
HexDigitValue(c) ==
    IF \E i \in DOMAIN HexChars : HexChars[i] = c
    THEN (CHOOSE i \in DOMAIN HexChars : HexChars[i] = c) - 1
    ELSE 9 + (CHOOSE i \in DOMAIN UpperHexChars : UpperHexChars[i] = c)

\* parseInt(yx, 16): the two digits taken in the wrong order
ParseHexPairSwapped(hi, lo) == 16 * HexDigitValue(lo) + HexDigitValue(hi)

\* parseInt(xy, 16) for a pair of hex digits
ParseHexPair(hi, lo) == 16 * HexDigitValue(hi) + HexDigitValue(lo)

\* the pattern without its closing anchor: /^#?([a-f\d]{2}){3}/i
HexMatchesUnanchored(hex) ==
    LET body == IF Len(hex) > 0 /\ hex[1] = "#" THEN Tail(hex) ELSE hex
    IN  /\ Len(body) >= 6
        /\ \A i \in 1..6 : IsHexDigit(body[i])

\* /^#?([a-f\d]{2})([a-f\d]{2})([a-f\d]{2})$/i matches hex
HexMatches(hex) ==
    LET body == IF Len(hex) > 0 /\ hex[1] = "#" THEN Tail(hex) ELSE hex
    IN  /\ Len(body) = 6
        /\ \A i \in 1..6 : IsHexDigit(body[i])

\* hexToRGB of a string the pattern matches (otherwise hexToRGB throws);
\* each channel is the byte b standing for b / 255
hexToRGB(hex) ==
    LET body == IF hex[1] = "#" THEN Tail(hex) ELSE hex
    IN  [r |-> ParseHexPair(body[1], body[2]),
         g |-> ParseHexPair(body[3], body[4]),
         b |-> ParseHexPair(body[5], body[6])]

\* the palette of STRIPE_COLORS that the presets use
cyan         == <<"#", "1", "3", "f", "f", "e", "3">>
richViolet   == <<"#", "6", "B", "2", "F", "D", "8">>
deepLavender == <<"#", "9", "B", "7", "F", "D", "8">>
deepPurple   == <<"#", "4", "3", "1", "6", "d", "3">>
darkBlue     == <<"#", "2", "9", "1", "6", "C", "7">>
deepTeal     == <<"#", "0", "0", "A", "3", "C", "C">>
navyBlue     == <<"#", "0", "F", "1", "B", "3", "D">>
midnightBlue == <<"#", "1", "e", "2", "6", "3", "5">>
magentaPink  == <<"#", "E", "8", "5", "D", "9", "A">>
coral        == <<"#", "F", "F", "7", "A", "6", "3">>
darkMango    == <<"#", "F", "F", "8", "C", "0", "0">>
deepRed      == <<"#", "D", "C", "1", "4", "3", "C">>
redOrange    == <<"#", "F", "F", "4", "5", "0", "0">>
richGold     == <<"#", "D", "A", "A", "5", "2", "0">>
magenta      == <<"#", "f", "f", "5", "2", "c", "1">>
warmPink     == <<"#", "f", "b", "7", "b", "b", "8">>

\* ------------------------------------------------------------ configuration

DEFAULT_CONFIG ==
    [colors            |-> <<cyan, richViolet, deepLavender, deepPurple,
                             darkBlue, deepTeal, navyBlue, midnightBlue>>,
     cycleSpeed        |-> 45,
     fullCycleDuration |-> 375,
     enableBreathing   |-> TRUE,
     enableXInversion  |-> TRUE,
     enableGrain       |-> TRUE,
     grainIntensity    |-> 3,
     targetFPS         |-> 60]

WarmColors == <<magentaPink, coral, darkMango, deepRed, redOrange, richGold>>

WARM_CONFIG ==
    [colors            |-> WarmColors,
     cycleSpeed        |-> 20,
     fullCycleDuration |-> 200,
     enableBreathing   |-> TRUE,
     enableXInversion  |-> TRUE,
     enableGrain       |-> TRUE,
     grainIntensity    |-> 3,
     targetFPS         |-> 60]

COMPLETE_CONFIG ==
    [colors            |-> <<magentaPink, coral, darkMango, redOrange, deepRed,
                             richGold, warmPink, magenta, richViolet, cyan,
                             deepLavender, deepPurple, darkBlue, deepTeal>>,
     cycleSpeed        |-> 40,
     fullCycleDuration |-> 280,
     enableBreathing   |-> TRUE,
     enableXInversion  |-> TRUE,
     enableGrain       |-> TRUE,
     grainIntensity    |-> 3,
     targetFPS         |-> 60]

\* a merge that rebuilds from the defaults: { ...DEFAULT_CONFIG, ...b }
SpreadMergeDropsOmitted(a, b) ==
    [f \in DOMAIN a \cup DOMAIN b |->
        IF f \in DOMAIN b THEN b[f] ELSE DEFAULT_CONFIG[f]]

\* { ...a, ...b }: every field of b overrides, every other field of a is kept
SpreadMerge(a, b) ==
    [f \in DOMAIN a \cup DOMAIN b |-> IF f \in DOMAIN b THEN b[f] ELSE a[f]]

\* Partial<GradientConfig> values handed to the constructor and to
\* updateConfig: no field, one field, several fields; a colour list shorter
\* than the six uniform slots and one as long (the default list is longer);
\* a list with a malformed entry.
NoFields == [f \in {} |-> 0]

PartialConfigs ==
    { NoFields,
      [colors |-> WarmColors],
      [colors |-> <<coral, cyan>>],
      [colors |-> <<cyan, <<"r", "e", "d">>>>],
      [cycleSpeed |-> 20, grainIntensity |-> 0] }

\* ------------------------------------------------------------------- state

VARIABLES
    canvas,        \* the constructor's canvas: NULL or "canvas"
    canvasSize,    \* <<canvas.width, canvas.height>>, the backing buffer
    clientSize,    \* <<canvas.clientWidth, canvas.clientHeight>>
    gl,            \* this.gl
    program,       \* this.program
    meshBuffers,   \* this.meshBuffers
    uniforms,      \* this.uniforms, the cached locations: NULL or "cached"
    config,        \* this.config
    state,         \* this.state, a RendererState
    glUniform,     \* the uniform values held by the GL program
    viewport,      \* the GL viewport's <<width, height>>
    live,          \* GPU objects created and not deleted
    deleted,       \* how many delete calls each GPU object has received
    rafQueue,      \* handles of the pending requestAnimationFrame callbacks
    now,           \* the host clock (performance.now, frame timestamps)
    lastOp,        \* the operation the last step ran
    lastArg,       \* its argument
    result,        \* how it ended: "ok", "true", "false" or "threw"
    draws,         \* index counts of the drawElements calls it issued
    scheduled,     \* number of requestAnimationFrame calls it made
    initResult,    \* how initialize() ended: "none" until it is called
    stopped,       \* stop() has returned and start() was not called since
    startedReady,  \* the start() that set the engine running found it
                   \* initialized (initialize() returned true, no dispose())
    disposed,      \* dispose() has been called
    drawnTime,     \* the time uniform of the latest draw call: <<>> before
                   \* the first draw, <<t>> afterwards
    \* AnimatedGradient
    mount,         \* where the component is: "none" (no component), the
                   \* steps of its mount effects, "mounted", "unmounted"
    props,         \* config (<<>> when absent, <<partial>>) and autoStart
    rendererRef,   \* rendererRef.current: NULL or "renderer"
    isInitialized, \* the isInitialized state
    hasError,      \* the hasError state (the CSS fallback is shown)
    hidden,        \* document.hidden
    listeners,     \* the event listeners the component has registered
    cleanup,       \* the mount effect returned its cleanup function
    calls,         \* dispose(), onInit and onError calls the component
                   \* made so far, and whether it called start()
    propagated,    \* an exception left the mount effect
    event,         \* what the last step of the component was
    \* hexToRGB on its own
    hexFrom,       \* the bytes the input was written from, <<>> if none
    hexIn,         \* the input string
    hexOut,        \* the call's outcome
    \* the engine's observers
    snapshot,      \* the object the latest getState() returned, as the
                   \* caller holds it: <<>> before the first call
    \* the colour arithmetic on its own
    fn,            \* the function applied: "none" before the call
    args,          \* its arguments
    value          \* what it returned: <<>> before the call

engine == <<gl, program, meshBuffers, uniforms, config, state>>

gpu == <<glUniform, viewport, live, deleted>>

host == <<canvas, canvasSize, clientSize, rafQueue, now>>

observed == <<lastOp, lastArg, result, draws, scheduled>>

history == <<initResult, stopped, startedReady, disposed, drawnTime>>

renderer == <<engine, gpu, host, observed, history>>

adapter == <<mount, props, rendererRef, isInitialized, hasError, hidden,
             listeners, cleanup, calls, propagated, event>>

colour == <<hexFrom, hexIn, hexOut>>

arithmetic == <<fn, args, value>>

apart == <<colour, snapshot, arithmetic>>

vars == <<renderer, adapter, apart>>

\* the canvas element's default backing size, and the layouts it is shown at
DefaultCanvasSize == <<300, 150>>

ClientSizes == { <<300, 150>>, <<800, 600>> }

FrameIds == 1..MaxFrameIds

\* createFullScreenQuad: four vertices, six indices
QuadIndexCount == 6

ZeroColor == [r |-> 0, g |-> 0, b |-> 0]

\* the GPU objects initialize() creates
GpuObjects ==
    {"vertexShader", "fragmentShader", "program", "vertexBuffer", "indexBuffer"}

\* the state after `new GradientRenderer(canvas, partial)`
Constructed(c, partial) ==
    /\ canvas = c
    /\ config = SpreadMerge(DEFAULT_CONFIG, partial)
    /\ gl = NULL
    /\ program = NULL
    /\ meshBuffers = NULL
    /\ uniforms = NULL
    /\ state = [gl |-> NULL, canvas |-> NULL, program |-> NULL,
                animationFrameId |-> NoFrame, isRunning |-> FALSE, startTime |-> 0]
    /\ lastOp = "constructor"
    /\ lastArg = partial
    /\ result = "ok"

\* no component: the engine is driven directly
NoAdapter ==
    /\ mount = "none"
    /\ props = [config |-> <<>>, autoStart |-> FALSE]
    /\ rendererRef = NULL
    /\ isInitialized = FALSE
    /\ hasError = FALSE
    /\ hidden = FALSE
    /\ listeners = {}
    /\ cleanup = FALSE
    /\ calls = [dispose |-> 0, onInit |-> 0, onError |-> 0, start |-> FALSE]
    /\ propagated = FALSE
    /\ event = "none"

\* no separate hexToRGB call
NoColour ==
    /\ hexFrom = <<>>
    /\ hexIn = <<>>
    /\ hexOut = [called |-> FALSE, threw |-> FALSE, rgb |-> ZeroColor]

\* getState() not called yet
NoSnapshot == snapshot = <<>>

\* no separate call of the colour arithmetic
NoArithmetic ==
    /\ fn = "none"
    /\ args = <<>>
    /\ value = <<>>

\* the fields' initializers, a canvas at its default size, a page that has
\* scheduled nothing
Fresh ==
    /\ canvasSize = DefaultCanvasSize
    /\ glUniform = [time |-> 0, resolution |-> <<0, 0>>, cycleSpeed |-> 0,
                    grainIntensity |-> 0, color |-> [i \in 1..6 |-> ZeroColor]]
    /\ viewport = DefaultCanvasSize
    /\ live = {}
    /\ deleted = [o \in GpuObjects |-> 0]
    /\ rafQueue = {}
    /\ now = 0
    /\ draws = <<>>
    /\ scheduled = 0
    /\ initResult = "none"
    /\ stopped = FALSE
    /\ startedReady = FALSE
    /\ disposed = FALSE
    /\ drawnTime = <<>>

Init ==
    /\ \E c \in {NULL, "canvas"}, partial \in PartialConfigs :
          Constructed(c, partial)
    /\ clientSize \in ClientSizes
    /\ Fresh
    /\ NoAdapter
    /\ NoColour
    /\ NoSnapshot
    /\ NoArithmetic

\* --------------------------------------------------------------- operations

\* the handle requestAnimationFrame returns: one that no pending callback
\* has.  Real handles never repeat; the engine overwrites the handle it holds
\* at every request, so only a clash with a pending callback could be seen.
FreshFrameId(queue) ==
    CHOOSE id \in FrameIds \ queue :
        \A other \in FrameIds \ queue : id <= other

HasFreshFrameId(queue) == FrameIds \ queue # {}

\* updateUniforms pushing the default grain intensity, whatever the
\* configuration holds
PushScalarsDefaultGrain(u, locations, time, size, cfg) ==
    IF locations = NULL THEN u
    ELSE [u EXCEPT !.time = time,
                   !.resolution = size,
                   !.cycleSpeed = cfg.cycleSpeed,
                   !.grainIntensity = DEFAULT_CONFIG.grainIntensity]

\* updateUniforms, up to the colour conversion: time, resolution, cycle
\* speed and grain intensity, each behind its cached location
PushScalars(u, locations, time, size, cfg) ==
    IF locations = NULL THEN u
    ELSE [u EXCEPT !.time = time,
                   !.resolution = size,
                   !.cycleSpeed = cfg.cycleSpeed,
                   !.grainIntensity = cfg.grainIntensity]

\* this.config.colors.map(hexToRGB) throws on the first malformed entry
ColorsConvert(colors) == \A i \in DOMAIN colors : HexMatches(colors[i])

\* updateUniforms, the colour slots: slot i is written when colors[i - 1]
\* exists and is left alone otherwise
PushColors(u, locations, colors) ==
    IF locations = NULL THEN u
    ELSE [u EXCEPT !.color =
            [i \in 1..6 |-> IF i <= Len(colors) THEN hexToRGB(colors[i])
                            ELSE u.color[i]]]

\* resize() that resizes the backing buffer and leaves gl.viewport alone
ResizedKeepsViewport(size, client, view) ==
    IF size # client THEN <<client, view>> ELSE <<size, view>>

\* resize() on a live context: <<canvasSize, viewport>> afterwards
Resized(size, client, view) ==
    IF size # client THEN <<client, client>> ELSE <<size, view>>

\* stop() with its guard inverted: `if (this.state.isRunning) return`
stopInvertedGuard(s, queue) ==
    IF s.isRunning THEN <<s, queue>>
    ELSE <<[s EXCEPT !.isRunning = FALSE, !.animationFrameId = NoFrame],
           queue \ {s.animationFrameId}>>

\* stop() that cancels the pending callback and keeps its handle
stopKeepsHandle(s, queue) ==
    IF ~s.isRunning THEN <<s, queue>>
    ELSE <<[s EXCEPT !.isRunning = FALSE], queue \ {s.animationFrameId}>>

\* stop() that forgets cancelAnimationFrame
stopWithoutCancel(s, queue) ==
    IF ~s.isRunning THEN <<s, queue>>
    ELSE <<[s EXCEPT !.isRunning = FALSE, !.animationFrameId = NoFrame],
           queue>>

\* stop(): <<state, rafQueue>> afterwards
stop(s, queue) ==
    IF ~s.isRunning THEN <<s, queue>>
    ELSE IF s.animationFrameId # NoFrame
         THEN <<[s EXCEPT !.isRunning = FALSE, !.animationFrameId = NoFrame],
                queue \ {s.animationFrameId}>>
         ELSE <<[s EXCEPT !.isRunning = FALSE], queue>>

\* what the host lets initialize() obtain: the context, the two compiled
\* shaders, the linked program, the two buffers
Environments ==
    [context : BOOLEAN, vertexShader : BOOLEAN, fragmentShader : BOOLEAN,
     link : BOOLEAN, vertexBuffer : BOOLEAN, indexBuffer : BOOLEAN]

\* how far initialize() gets in env: the step that makes it return false,
\* or "done" when every step succeeds
InitializeStops(env) ==
    IF canvas = NULL THEN "canvas"
    ELSE IF ~env.context THEN "context"
    ELSE IF ~env.vertexShader \/ ~env.fragmentShader THEN "shaders"
    ELSE IF ~env.link THEN "program"
    ELSE IF ~env.vertexBuffer \/ ~env.indexBuffer THEN "mesh"
    ELSE "done"

\* the GPU objects initialize() leaves allocated: compileShader and
\* createProgram delete what fails to compile or link, createMeshBuffers
\* creates the vertex buffer before the index buffer
InitializeCreates(env) ==
    LET at == InitializeStops(env)
        shaders == (IF env.vertexShader THEN {"vertexShader"} ELSE {})
                   \cup (IF env.fragmentShader THEN {"fragmentShader"} ELSE {})
    IN  IF at \in {"canvas", "context"} THEN {}
        ELSE IF at = "shaders" THEN shaders
        ELSE IF at = "program" THEN shaders
        ELSE IF at = "mesh"
             THEN shaders \cup {"program"}
                  \cup (IF env.vertexBuffer THEN {"vertexBuffer"} ELSE {})
        ELSE shaders \cup {"program", "vertexBuffer", "indexBuffer"}

\* the GPU objects initialize() deletes again: compileShader deletes a
\* shader that does not compile, createProgram a program that does not link
InitializeDeletes(env) ==
    LET at == InitializeStops(env)
    IN  IF at = "shaders"
        THEN (IF env.vertexShader THEN {} ELSE {"vertexShader"})
             \cup (IF env.fragmentShader THEN {} ELSE {"fragmentShader"})
        ELSE IF at = "program" THEN {"program"}
        ELSE {}

\* the delete counts after one more delete call on each object of objects
Deleted(counts, objects) ==
    [o \in GpuObjects |-> IF o \in objects THEN counts[o] + 1 ELSE counts[o]]

\* initialize(), called once on a constructed engine (a second call on the
\* same engine is not part of the engine's contract)
Initialize(env) ==
    LET at == InitializeStops(env)
        sized == Resized(canvasSize, clientSize, viewport)
        throws == at = "done" /\ ~ColorsConvert(config.colors)
        scalars == PushScalars(glUniform, "cached", 0, sized[1], config)
    IN  /\ initResult = "none"
        /\ ~disposed
        /\ gl' = IF at \in {"canvas"} THEN gl
                 ELSE IF at = "context" THEN NULL ELSE "gl"
        /\ program' = IF at \in {"canvas", "context", "shaders"} THEN program
                      ELSE IF at = "program" THEN NULL ELSE "program"
        /\ uniforms' = IF at \in {"mesh", "done"} THEN "cached" ELSE uniforms
        /\ meshBuffers' = IF at = "done" THEN "meshBuffers"
                          ELSE IF at = "mesh" THEN NULL ELSE meshBuffers
        /\ live' = live \cup InitializeCreates(env)
        /\ deleted' = Deleted(deleted, InitializeDeletes(env))
        /\ canvasSize' = IF at = "done" THEN sized[1] ELSE canvasSize
        /\ viewport' = IF at = "done" THEN sized[2] ELSE viewport
        /\ glUniform' = IF at # "done" THEN glUniform
                        ELSE IF throws THEN scalars
                        ELSE PushColors(scalars, "cached", config.colors)
        /\ result' = IF throws THEN "threw"
                     ELSE IF at = "done" THEN "true" ELSE "false"
        /\ initResult' = result'
        /\ lastOp' = "initialize"
        /\ lastArg' = env
        /\ draws' = <<>>
        /\ scheduled' = 0
        /\ UNCHANGED <<config, state, canvas, clientSize, rafQueue, now,
                       stopped, startedReady, disposed, drawnTime>>

\* start()
Start ==
    /\ state.isRunning \/ HasFreshFrameId(rafQueue)
    /\ IF state.isRunning
       THEN /\ UNCHANGED <<state, rafQueue, startedReady>>
            /\ scheduled' = 0
       ELSE LET id == FreshFrameId(rafQueue)
            IN  /\ state' = [state EXCEPT !.isRunning = TRUE,
                                          !.startTime = now,
                                          !.animationFrameId = id]
                /\ rafQueue' = rafQueue \cup {id}
                /\ scheduled' = 1
                /\ startedReady' = (initResult = "true" /\ ~disposed)
    /\ stopped' = FALSE
    /\ lastOp' = "start"
    /\ lastArg' = NoFields
    /\ result' = "ok"
    /\ draws' = <<>>
    /\ UNCHANGED <<gl, program, meshBuffers, uniforms, config, gpu, canvas,
                   canvasSize, clientSize, now, initResult, disposed,
                   drawnTime>>

\* stop()
Stop ==
    /\ state' = stop(state, rafQueue)[1]
    /\ rafQueue' = stop(state, rafQueue)[2]
    /\ stopped' = TRUE
    /\ lastOp' = "stop"
    /\ lastArg' = NoFields
    /\ result' = "ok"
    /\ draws' = <<>>
    /\ scheduled' = 0
    /\ UNCHANGED <<gl, program, meshBuffers, uniforms, config, gpu, canvas,
                   canvasSize, clientSize, now, initResult, startedReady,
                   disposed, drawnTime>>

\* resize()
Resize ==
    /\ IF gl = NULL
       THEN UNCHANGED <<canvasSize, viewport>>
       ELSE /\ canvasSize' = Resized(canvasSize, clientSize, viewport)[1]
            /\ viewport' = Resized(canvasSize, clientSize, viewport)[2]
    /\ lastOp' = "resize"
    /\ lastArg' = NoFields
    /\ result' = "ok"
    /\ draws' = <<>>
    /\ scheduled' = 0
    /\ UNCHANGED <<engine, glUniform, live, deleted, canvas, clientSize,
                   rafQueue, now, history>>

\* updateConfig(partial)
UpdateConfig(partial) ==
    /\ config' = SpreadMerge(config, partial)
    /\ lastOp' = "updateConfig"
    /\ lastArg' = partial
    /\ result' = "ok"
    /\ draws' = <<>>
    /\ scheduled' = 0
    /\ UNCHANGED <<gl, program, meshBuffers, uniforms, state, gpu, host,
                   history>>

\* deleteMeshBuffers that deletes the vertex buffer only
disposeDeletesVertexBufferOnly(context, buffers, prog) ==
    (IF context # NULL /\ buffers # NULL THEN {"vertexBuffer"} ELSE {})
    \cup (IF context # NULL /\ prog # NULL THEN {"program"} ELSE {})

\* the GPU objects dispose() deletes: both buffers through deleteMeshBuffers
\* when it holds a context and the buffers, the program when it holds a
\* context and the program
disposeDeletes(context, buffers, prog) ==
    (IF context # NULL /\ buffers # NULL
     THEN {"vertexBuffer", "indexBuffer"} ELSE {})
    \cup (IF context # NULL /\ prog # NULL THEN {"program"} ELSE {})

\* dispose(): stop(), delete the buffers and the program, drop the context
\* (losing the context changes nothing the engine reads afterwards)
Dispose ==
    /\ state' = stop(state, rafQueue)[1]
    /\ rafQueue' = stop(state, rafQueue)[2]
    /\ meshBuffers' = IF gl # NULL /\ meshBuffers # NULL THEN NULL
                      ELSE meshBuffers
    /\ program' = IF gl # NULL /\ program # NULL THEN NULL ELSE program
    /\ live' = live \ disposeDeletes(gl, meshBuffers, program)
    /\ deleted' = Deleted(deleted, disposeDeletes(gl, meshBuffers, program))
    /\ gl' = NULL
    /\ stopped' = TRUE
    /\ disposed' = TRUE
    /\ lastOp' = "dispose"
    /\ lastArg' = NoFields
    /\ result' = "ok"
    /\ draws' = <<>>
    /\ scheduled' = 0
    /\ UNCHANGED <<uniforms, config, glUniform, viewport, canvas, canvasSize,
                   clientSize, now, initResult, startedReady, drawnTime>>

\* the host runs the pending callback id: render(time) with the frame's
\* timestamp
Frame(id) ==
    LET queue == rafQueue \ {id}
        renders == gl # NULL /\ meshBuffers # NULL /\ state.isRunning
        currentTime == now - state.startTime
        scalars == PushScalars(glUniform, uniforms, currentTime, canvasSize,
                               config)
        throws == renders /\ ~ColorsConvert(config.colors)
        next == FreshFrameId(queue)
    IN  /\ id \in rafQueue
        /\ HasFreshFrameId(queue)
        /\ IF ~renders
           THEN /\ UNCHANGED <<state, glUniform, drawnTime>>
                /\ rafQueue' = queue
                /\ draws' = <<>>
                /\ scheduled' = 0
           ELSE IF throws
           THEN /\ glUniform' = scalars
                /\ UNCHANGED <<state, drawnTime>>
                /\ rafQueue' = queue
                /\ draws' = <<>>
                /\ scheduled' = 0
           ELSE /\ glUniform' = PushColors(scalars, uniforms, config.colors)
                /\ draws' = <<QuadIndexCount>>
                /\ drawnTime' = <<currentTime>>
                /\ state' = [state EXCEPT !.animationFrameId = next]
                /\ rafQueue' = queue \cup {next}
                /\ scheduled' = 1
        /\ lastOp' = "frame"
        /\ lastArg' = NoFields
        /\ result' = IF throws THEN "threw" ELSE "ok"
        /\ UNCHANGED <<gl, program, meshBuffers, uniforms, config, viewport,
                       live, deleted, canvas, canvasSize, clientSize, now,
                       initResult, stopped, startedReady, disposed>>

\* the host clock advances
Tick ==
    /\ now < MaxTime
    /\ now' = now + 1
    /\ lastOp' = "host"
    /\ lastArg' = NoFields
    /\ result' = "ok"
    /\ draws' = <<>>
    /\ scheduled' = 0
    /\ UNCHANGED <<engine, gpu, canvas, canvasSize, clientSize, rafQueue,
                   history>>

\* the page lays the canvas out at another size
Layout(size) ==
    /\ size # clientSize
    /\ clientSize' = size
    /\ lastOp' = "host"
    /\ lastArg' = NoFields
    /\ result' = "ok"
    /\ draws' = <<>>
    /\ scheduled' = 0
    /\ UNCHANGED <<engine, gpu, canvas, canvasSize, rafQueue, now, history>>

InitializeCall == \E env \in Environments : Initialize(env)

UpdateConfigCall == \E partial \in PartialConfigs : UpdateConfig(partial)

FrameCallback == \E id \in rafQueue : Frame(id)

LayoutChange == \E size \in ClientSizes : Layout(size)

\* a step of the engine with no component around it
Detached == UNCHANGED <<adapter, apart>>

Next ==
    \/ InitializeCall /\ Detached
    \/ Start /\ Detached
    \/ Stop /\ Detached
    \/ Resize /\ Detached
    \/ UpdateConfigCall /\ Detached
    \/ Dispose /\ Detached
    \/ FrameCallback /\ Detached
    \/ Tick /\ Detached
    \/ LayoutChange /\ Detached

Spec == Init /\ [][Next]_vars

\* --------------------------------------------------------- AnimatedGradient

\* the props a component is mounted with: config absent or one of the
\* partial configurations, autoStart off or on (onInit and onError are
\* always supplied)
Props ==
    [config : {<<>>} \cup {<<partial>> : partial \in PartialConfigs},
     autoStart : BOOLEAN]

\* the mount effect right after `createStripeGradient(canvas)`: the canvas
\* is connected, the engine is constructed over DEFAULT_CONFIG
InitAdapter ==
    /\ Constructed("canvas", DEFAULT_CONFIG)
    /\ clientSize \in ClientSizes
    /\ Fresh
    /\ mount = "created"
    /\ props \in Props
    /\ rendererRef = NULL
    /\ isInitialized = FALSE
    /\ hasError = FALSE
    /\ hidden \in BOOLEAN
    /\ listeners = {}
    /\ cleanup = FALSE
    /\ calls = [dispose |-> 0, onInit |-> 0, onError |-> 0, start |-> FALSE]
    /\ propagated = FALSE
    /\ event = "mount"
    /\ NoColour
    /\ NoSnapshot
    /\ NoArithmetic

\* a mount effect that shows no fallback when initialize() returns false
mountOutcomeNoFallback(outcome) ==
    IF outcome = "true"
    THEN [stored |-> TRUE, hasError |-> FALSE, onError |-> 0,
          cleanup |-> TRUE, propagated |-> FALSE]
    ELSE IF outcome = "false"
    THEN [stored |-> FALSE, hasError |-> FALSE, onError |-> 0,
          cleanup |-> FALSE, propagated |-> FALSE]
    ELSE [stored |-> FALSE, hasError |-> TRUE, onError |-> 1,
          cleanup |-> TRUE, propagated |-> FALSE]

\* what the mount effect does with the outcome of renderer.initialize():
\* true: the engine is stored and the effect runs on to its cleanup;
\* false: setHasError(true) and a bare return, with no cleanup function;
\* threw: the catch block, setHasError(true) and onError(error), then the
\* cleanup function is returned.  Nothing leaves the try block uncaught.
mountOutcome(outcome) ==
    IF outcome = "true"
    THEN [stored |-> TRUE, hasError |-> FALSE, onError |-> 0,
          cleanup |-> TRUE, propagated |-> FALSE]
    ELSE IF outcome = "false"
    THEN [stored |-> FALSE, hasError |-> TRUE, onError |-> 0,
          cleanup |-> FALSE, propagated |-> FALSE]
    ELSE [stored |-> FALSE, hasError |-> TRUE, onError |-> 1,
          cleanup |-> TRUE, propagated |-> FALSE]

\* mount effect: `if (config) renderer.updateConfig(config)`
MountUpdateConfig ==
    /\ mount = "created"
    /\ IF props.config # <<>>
       THEN UpdateConfig(props.config[1])
       ELSE UNCHANGED renderer
    /\ mount' = "configured"
    /\ event' = "mount"
    /\ UNCHANGED <<props, rendererRef, isInitialized, hasError, hidden,
                   listeners, cleanup, calls, propagated, apart>>

\* mount effect: `renderer.initialize()` and what follows from its outcome
MountInitialize(env) ==
    /\ mount = "configured"
    /\ Initialize(env)
    /\ LET out == mountOutcome(result')
       IN  /\ rendererRef' = IF out.stored THEN "renderer" ELSE NULL
           /\ isInitialized' = out.stored
           /\ hasError' = out.hasError
           /\ calls' = [calls EXCEPT !.onError = @ + out.onError]
           /\ cleanup' = out.cleanup
           /\ propagated' = out.propagated
           /\ mount' = IF ~out.stored THEN "effects"
                       ELSE IF props.autoStart THEN "start"
                       ELSE "onInit"
    /\ event' = "mount"
    /\ UNCHANGED <<props, hidden, listeners, apart>>

\* mount effect: `if (autoStart) renderer.start()`
MountStart ==
    /\ mount = "start"
    /\ Start
    /\ calls' = [calls EXCEPT !.start = TRUE]
    /\ mount' = "onInit"
    /\ event' = "mount"
    /\ UNCHANGED <<props, rendererRef, isInitialized, hasError, hidden,
                   listeners, cleanup, propagated, apart>>

\* mount effect: `if (onInit) onInit(renderer)`
MountOnInit ==
    /\ mount = "onInit"
    /\ calls' = [calls EXCEPT !.onInit = @ + 1]
    /\ mount' = "effects"
    /\ event' = "mount"
    /\ UNCHANGED <<renderer, props, rendererRef, isInitialized, hasError,
                   hidden, listeners, cleanup, propagated, apart>>

\* config effect, first run
ConfigEffect ==
    /\ mount = "effects"
    /\ IF rendererRef # NULL /\ props.config # <<>>
       THEN UpdateConfig(props.config[1])
       ELSE UNCHANGED renderer
    /\ mount' = "resizeEffect"
    /\ event' = "mount"
    /\ UNCHANGED <<props, rendererRef, isInitialized, hasError, hidden,
                   listeners, cleanup, calls, propagated, apart>>

\* resize effect: the initial handleResize() and the window listener
ResizeEffect ==
    /\ mount \in {"resizeEffect", "resizeEffectAgain"}
    /\ IF rendererRef # NULL
       THEN /\ Resize
            /\ listeners' = listeners \cup {"resize"}
       ELSE UNCHANGED <<renderer, listeners>>
    /\ mount' = IF mount = "resizeEffect" THEN "visibilityEffect"
                ELSE "mounted"
    /\ event' = "mount"
    /\ UNCHANGED <<props, rendererRef, isInitialized, hasError, hidden,
                   cleanup, calls, propagated, apart>>

\* visibility effect: the document listener, registered only with an engine
\* and autoStart; setIsInitialized(true) then renders the component again
\* and the effects that depend on isInitialized run again
VisibilityEffect ==
    /\ mount = "visibilityEffect"
    /\ listeners' = IF rendererRef # NULL /\ props.autoStart
                    THEN listeners \cup {"visibilitychange"}
                    ELSE listeners
    /\ mount' = IF isInitialized THEN "resizeEffectAgain" ELSE "mounted"
    /\ event' = "mount"
    /\ UNCHANGED <<renderer, props, rendererRef, isInitialized, hasError,
                   hidden, cleanup, calls, propagated, apart>>

\* the document is hidden or shown; handleVisibilityChange if registered
VisibilityChange ==
    /\ mount = "mounted"
    /\ hidden' = ~hidden
    /\ IF "visibilitychange" \in listeners /\ rendererRef # NULL
       THEN IF hidden'
            THEN /\ IF state.isRunning THEN Stop ELSE UNCHANGED renderer
                 /\ UNCHANGED calls
            ELSE IF ~state.isRunning
                 THEN /\ Start
                      /\ calls' = [calls EXCEPT !.start = TRUE]
                 ELSE UNCHANGED <<renderer, calls>>
       ELSE UNCHANGED <<renderer, calls>>
    /\ event' = "visibilitychange"
    /\ UNCHANGED <<mount, props, rendererRef, isInitialized, hasError,
                   listeners, cleanup, propagated, apart>>

\* the window is resized; handleResize if registered
WindowResize ==
    /\ mount = "mounted"
    /\ IF "resize" \in listeners /\ rendererRef # NULL
       THEN Resize
       ELSE UNCHANGED renderer
    /\ event' = "resize"
    /\ UNCHANGED <<mount, props, rendererRef, isInitialized, hasError,
                   hidden, listeners, cleanup, calls, propagated, apart>>

\* the parent passes another config; the config effect runs again
ConfigChange(partial) ==
    /\ mount = "mounted"
    /\ props.config # <<partial>>
    /\ props' = [props EXCEPT !.config = <<partial>>]
    /\ IF rendererRef # NULL
       THEN UpdateConfig(partial)
       ELSE UNCHANGED renderer
    /\ event' = "config"
    /\ UNCHANGED <<mount, rendererRef, isInitialized, hasError, hidden,
                   listeners, cleanup, calls, propagated, apart>>

\* the component unmounts: the listeners are removed and the mount effect's
\* cleanup, if it returned one, disposes of the stored engine
Unmount ==
    /\ mount = "mounted"
    /\ IF cleanup /\ rendererRef # NULL
       THEN /\ Dispose
            /\ calls' = [calls EXCEPT !.dispose = @ + 1]
            /\ rendererRef' = NULL
       ELSE UNCHANGED <<renderer, calls, rendererRef>>
    /\ listeners' = {}
    /\ mount' = "unmounted"
    /\ event' = "unmount"
    /\ UNCHANGED <<props, isInitialized, hasError, hidden, cleanup,
                   propagated, apart>>

\* the page around a component whose effects have run: frames, the clock,
\* the layout
Page(step, name) ==
    /\ mount \in {"mounted", "unmounted"}
    /\ step
    /\ event' = name
    /\ UNCHANGED <<mount, props, rendererRef, isInitialized, hasError,
                   hidden, listeners, cleanup, calls, propagated, apart>>

MountInitializeCall == \E env \in Environments : MountInitialize(env)

ConfigChangeCall == \E partial \in PartialConfigs : ConfigChange(partial)

PageFrame == Page(FrameCallback, "frame")

PageTick == Page(Tick, "host")

PageLayout == Page(LayoutChange, "host")

NextAdapter ==
    \/ MountUpdateConfig
    \/ MountInitializeCall
    \/ MountStart
    \/ MountOnInit
    \/ ConfigEffect
    \/ ResizeEffect
    \/ VisibilityEffect
    \/ VisibilityChange
    \/ WindowResize
    \/ ConfigChangeCall
    \/ Unmount
    \/ PageFrame
    \/ PageTick
    \/ PageLayout

AdapterSpec == InitAdapter /\ [][NextAdapter]_vars

\* ----------------------------------------------------- hexToRGB on its own

\* bytes with every hex digit in either half, and the neighbours of the
\* ends and of the middle
SampleBytes == {17 * d : d \in 0..15} \cup {1, 16, 127, 128, 254}

\* one hex digit of value v, written in lower or in upper case
HexDigit(v, upper) ==
    IF upper /\ v >= 10 THEN UpperHexChars[v - 9] ELSE HexChars[v + 1]

\* the colour string of three bytes: an optional '#', two digits per byte
HexString(bytes, hash, upper) ==
    (IF hash THEN <<"#">> ELSE <<>>)
    \o <<HexDigit(bytes[1] \div 16, upper), HexDigit(bytes[1] % 16, upper),
         HexDigit(bytes[2] \div 16, upper), HexDigit(bytes[2] % 16, upper),
         HexDigit(bytes[3] \div 16, upper), HexDigit(bytes[3] % 16, upper)>>

\* the characters of the strings tried as they are: the prefix character,
\* a digit, a letter digit, the letter after the last hex letter
RawChars == {"#", "0", "F", "g"}

RawStrings == UNION {[1..n -> RawChars] : n \in 0..MaxHexLen}

\* hexToRGB is about to be called on a string written from three bytes or
\* on a raw string
InitColor ==
    /\ Constructed(NULL, NoFields)
    /\ clientSize = DefaultCanvasSize
    /\ Fresh
    /\ NoAdapter
    /\ \/ /\ hexFrom \in SampleBytes \X SampleBytes \X SampleBytes
          /\ \E hash \in BOOLEAN, upper \in BOOLEAN :
                hexIn = HexString(hexFrom, hash, upper)
       \/ /\ hexFrom = <<>>
          /\ hexIn \in RawStrings
    /\ hexOut = [called |-> FALSE, threw |-> FALSE, rgb |-> ZeroColor]
    /\ NoSnapshot
    /\ NoArithmetic

\* hexToRGB(hexIn): the RGB of a string the pattern matches, an Error for
\* any other
Convert ==
    /\ ~hexOut.called
    /\ hexOut' = IF HexMatches(hexIn)
                 THEN [called |-> TRUE, threw |-> FALSE,
                       rgb |-> hexToRGB(hexIn)]
                 ELSE [called |-> TRUE, threw |-> TRUE, rgb |-> ZeroColor]
    /\ UNCHANGED <<renderer, adapter, hexFrom, hexIn, snapshot, arithmetic>>

NextColor == Convert

ColorSpec == InitColor /\ [][NextColor]_vars

\* ------------------------------------------------- the engine's observers

\* Partial<GradientConfig> values that set the grain fields
GrainConfigs ==
    {NoFields,
     [enableGrain |-> FALSE],
     [enableGrain |-> FALSE, grainIntensity |-> 8],
     [enableGrain |-> TRUE, grainIntensity |-> 8]}

InitObserver ==
    /\ \E partial \in GrainConfigs : Constructed("canvas", partial)
    /\ clientSize = DefaultCanvasSize
    /\ Fresh
    /\ NoAdapter
    /\ NoColour
    /\ NoSnapshot
    /\ NoArithmetic

\* getState(): `return { ...this.state }`, a new object with the fields of
\* this.state
GetState ==
    /\ snapshot' = <<state>>
    /\ lastOp' = "getState"
    /\ lastArg' = NoFields
    /\ result' = "ok"
    /\ draws' = <<>>
    /\ scheduled' = 0
    /\ UNCHANGED <<engine, gpu, host, history, adapter, colour, arithmetic>>

\* isRunning(): `return this.state.isRunning`
IsRunning ==
    /\ lastOp' = "isRunning"
    /\ lastArg' = NoFields
    /\ result' = IF state.isRunning THEN "true" ELSE "false"
    /\ draws' = <<>>
    /\ scheduled' = 0
    /\ UNCHANGED <<engine, gpu, host, history, adapter, apart>>

\* the caller assigns to a field of the object getState() returned; the
\* object is the caller's own, this.state is another object
MutateSnapshot(field) ==
    /\ snapshot # <<>>
    /\ snapshot' = <<IF field = "isRunning"
                     THEN [snapshot[1] EXCEPT !.isRunning = ~@]
                     ELSE [snapshot[1] EXCEPT !.gl = NULL, !.program = NULL]>>
    /\ lastOp' = "mutateSnapshot"
    /\ lastArg' = [field |-> field]
    /\ result' = "ok"
    /\ draws' = <<>>
    /\ scheduled' = 0
    /\ UNCHANGED <<engine, gpu, host, history, adapter, colour, arithmetic>>

GrainConfigCall == \E partial \in GrainConfigs : UpdateConfig(partial)

MutateSnapshotCall == \E field \in {"isRunning", "handles"} : MutateSnapshot(field)

NextObserver ==
    \/ InitializeCall /\ Detached
    \/ Start /\ Detached
    \/ Stop /\ Detached
    \/ GrainConfigCall /\ Detached
    \/ Dispose /\ Detached
    \/ FrameCallback /\ Detached
    \/ Tick /\ Detached
    \/ GetState
    \/ IsRunning
    \/ MutateSnapshotCall

ObserverSpec == InitObserver /\ [][NextObserver]_vars

\* --------------------------------------------- colour arithmetic on its own

Abs(x) == IF x < 0 THEN -x ELSE x

\* the binary exponent at which a / q has SignificandBits significant bits:
\* the least k >= from with a / q < 2^SignificandBits * 2^k
RECURSIVE Exponent(_, _, _)
Exponent(a, q, from) ==
    IF a < (2 ^ SignificandBits) * (2 ^ from) * q THEN from
    ELSE Exponent(a, q, from + 1)

\* the floating-point number nearest to p / q, ties to the even significand
\* (the rounding of every arithmetic operation on a number)
RoundFloat(p, q) ==
    LET a == Abs(p)
        k == Exponent(a, q, 0)
        unit == q * (2 ^ k)
        m == a \div unit
        r == a % unit
        up == 2 * r > unit \/ (2 * r = unit /\ m % 2 = 1)
        magnitude == (IF up THEN m + 1 ELSE m) * (2 ^ k)
    IN  IF p < 0 THEN -magnitude ELSE magnitude

\* 1.0
One == 2 ^ FractionBits

\* x + y, x - y, x * y on numbers
FloatAdd(x, y) == RoundFloat(x + y, 1)

FloatSub(x, y) == RoundFloat(x - y, 1)

FloatMul(x, y) == RoundFloat(x * y, One)

\* the numbers of the format in [0, 1], the range of an RGB channel
Channels == {n \in 0..One : RoundFloat(n, 1) = n}

\* one channel of interpolateColor: c1 + (c2 - c1) * t
Lerp(c1, c2, t) == FloatAdd(c1, FloatMul(FloatSub(c2, c1), t))

interpolateColor(color1, color2, t) ==
    [r |-> Lerp(color1.r, color2.r, t),
     g |-> Lerp(color1.g, color2.g, t),
     b |-> Lerp(color1.b, color2.b, t)]

\* u_color1..u_color6 as updateUniforms pushes them for a colour list of at
\* least six entries (channels as bytes)
StopsOf(colors) == [i \in 1..6 |-> hexToRGB(colors[i])]

\* GLSL mix(x, y, a) = x * (1 - a) + y * a on vec3, for a = f / Subdivisions;
\* the result's channels are in units of 1 / Subdivisions
mix(x, y, f) ==
    [r |-> x.r * (Subdivisions - f) + y.r * f,
     g |-> x.g * (Subdivisions - f) + y.g * f,
     b |-> x.b * (Subdivisions - f) + y.b * f]

\* blendColors whose last segment stays on the sixth stop
blendColorsClamped(stops, t) ==
    LET normalizedTime == t % (6 * Subdivisions)
        colorT == normalizedTime % Subdivisions
        index == normalizedTime \div Subdivisions
    IN  IF index = 0 THEN mix(stops[1], stops[2], colorT)
        ELSE IF index = 1 THEN mix(stops[2], stops[3], colorT)
        ELSE IF index = 2 THEN mix(stops[3], stops[4], colorT)
        ELSE IF index = 3 THEN mix(stops[4], stops[5], colorT)
        ELSE IF index = 4 THEN mix(stops[5], stops[6], colorT)
        ELSE mix(stops[6], stops[6], colorT)

\* blendColors(t) of the fragment shader at t / (6 * Subdivisions):
\* normalizedTime = mod(t, 1.0) in the same unit, colorIndex =
\* normalizedTime * 6 in units of 1 / Subdivisions, colorT its fractional
\* part and index its integer part
blendColors(stops, t) ==
    LET normalizedTime == t % (6 * Subdivisions)
        colorT == normalizedTime % Subdivisions
        index == normalizedTime \div Subdivisions
    IN  IF index = 0 THEN mix(stops[1], stops[2], colorT)
        ELSE IF index = 1 THEN mix(stops[2], stops[3], colorT)
        ELSE IF index = 2 THEN mix(stops[3], stops[4], colorT)
        ELSE IF index = 3 THEN mix(stops[4], stops[5], colorT)
        ELSE IF index = 4 THEN mix(stops[5], stops[6], colorT)
        ELSE mix(stops[6], stops[1], colorT)

\* fract(slowTime * 0.12) with slowTime = u_time / u_cycleSpeed, the offset
\* main() adds to gradientPosition before wrapping it: time and cycleSpeed
\* in tenths, the result in units of 1 / (100 * cycleSpeed)
CyclePhase(time, cycleSpeed) == (12 * time) % (100 * cycleSpeed)

Presets == {DEFAULT_CONFIG, WARM_CONFIG, COMPLETE_CONFIG}

InterpolateArgs ==
    [kind : {"interpolateColor"},
     color1 : [r : Channels, g : {0, One}, b : {One \div 2}],
     color2 : [r : Channels, g : {0, One}, b : {One \div 2}],
     t : {0, One \div 2, One}]

BlendArgs ==
    [kind : {"blendColors"},
     stops : {StopsOf(DEFAULT_CONFIG.colors), StopsOf(WarmColors)},
     t : (0 - 6 * Subdivisions)..(12 * Subdivisions)]

PhaseArgs ==
    [kind : {"cyclePhase"}, config : Presets, time : 0..MaxCycleTime]

InitArithmetic ==
    /\ Constructed(NULL, NoFields)
    /\ clientSize = DefaultCanvasSize
    /\ Fresh
    /\ NoAdapter
    /\ NoColour
    /\ NoSnapshot
    /\ fn = "none"
    /\ args \in InterpolateArgs \cup BlendArgs \cup PhaseArgs
    /\ value = <<>>

\* interpolateColor(color1, color2, t)
InterpolateColor ==
    /\ fn = "none"
    /\ args.kind = "interpolateColor"
    /\ fn' = "interpolateColor"
    /\ value' = <<interpolateColor(args.color1, args.color2, args.t)>>
    /\ UNCHANGED <<renderer, adapter, colour, snapshot, args>>

\* blendColors(t) with the uniforms u_color1..u_color6 = stops
BlendColors ==
    /\ fn = "none"
    /\ args.kind = "blendColors"
    /\ fn' = "blendColors"
    /\ value' = <<blendColors(args.stops, args.t)>>
    /\ UNCHANGED <<renderer, adapter, colour, snapshot, args>>

\* the cycle phase of two draws of a preset, fullCycleDuration apart
Phases ==
    /\ fn = "none"
    /\ args.kind = "cyclePhase"
    /\ fn' = "cyclePhase"
    /\ value' = <<CyclePhase(args.time, args.config.cycleSpeed),
                  CyclePhase(args.time + args.config.fullCycleDuration,
                             args.config.cycleSpeed)>>
    /\ UNCHANGED <<renderer, adapter, colour, snapshot, args>>

NextArithmetic ==
    \/ InterpolateColor
    \/ BlendColors
    \/ Phases

ArithmeticSpec == InitArithmetic /\ [][NextArithmetic]_vars

\* ------------------------------------------------------------------ claims

\* initialize() returned true and dispose() has not been called
Initialized == initResult = "true" /\ ~disposed

\* what a colour list alone determines for slot i: the i-th entry's RGB, or
\* the GL default when the list has no i-th entry
SlotOf(colors, i) ==
    IF i <= Len(colors) THEN hexToRGB(colors[i]) ELSE ZeroColor

\* C1: on a successfully initialized engine, once stop() has returned no
\* draw call occurs until start() is called again, whatever operations and
\* frame callbacks come in between.
C1_NoDrawAfterStop == (initResult = "true" /\ stopped) => draws = <<>>

\* a running engine that has drawn a frame is stopped
C1_Witness ==
    /\ lastOp = "stop"
    /\ initResult = "true"
    /\ stopped
    /\ ~disposed
    /\ ~state.isRunning
    /\ glUniform.time > 0
    /\ rafQueue = {}

\* C2: after start() on a successfully initialized engine, every frame
\* callback that fires while the engine is running issues exactly one draw
\* call for the full index count and schedules exactly one next callback,
\* and until stop() or dispose() a callback is always pending (so that fair
\* frame delivery keeps the engine drawing).
C2_LoopNeverEnds ==
    /\ [](startedReady /\ state.isRunning => Cardinality(rafQueue) = 1)
    /\ [][(lastOp' = "frame" /\ startedReady /\ state.isRunning)
            => /\ draws' = <<QuadIndexCount>>
               /\ scheduled' = 1
               /\ Cardinality(rafQueue') = 1]_vars

\* C3: after dispose() on an initialized engine no draw call occurs again,
\* and a further dispose() does not throw and changes no engine state.
C3_DisposeFinal ==
    /\ [](initResult = "true" /\ disposed => draws = <<>>)
    /\ [][(initResult = "true" /\ disposed /\ lastOp' = "dispose")
            => /\ result' = "ok"
               /\ UNCHANGED <<engine, gpu, rafQueue>>]_vars

\* C4: initialize() never lets an exception escape: it returns a boolean
\* for every configuration and every environment.
C4_InitializeNeverThrows ==
    lastOp = "initialize" => result \in {"true", "false"}

\* C5: initialize() on an engine that is not running returns true exactly
\* when the context, both shaders, the program and the mesh buffers are all
\* obtained and false as soon as one is not, and in either case leaves the
\* engine not running with no frame callback scheduled.
C5_InitializeResult ==
    [][(lastOp' = "initialize" /\ ~state.isRunning /\ rafQueue = {})
         => /\ result' = "true" <=> InitializeStops(lastArg') = "done"
            /\ InitializeStops(lastArg') # "done" => result' = "false"
            /\ ~state'.isRunning
            /\ rafQueue' = {}
            /\ scheduled' = 0]_vars

\* C6: start(), stop() and resize() on an engine that was never initialized
\* or whose initialize() returned false leave isRunning, the frame handle
\* and the start timestamp unchanged and schedule no frame callback.
C6_NoOpsWithoutInitialize ==
    [][(initResult \in {"none", "false"} /\ ~disposed
          /\ lastOp' \in {"start", "stop", "resize"})
         => /\ state' = state
            /\ rafQueue' = rafQueue
            /\ scheduled' = 0]_vars

\* C7: right after dispose() the context, program and mesh handles and the
\* frame handle are null and the engine is not running, and no later
\* start(), stop(), resize() or updateConfig() changes isRunning or the
\* frame handle or schedules a frame callback.
C7_DisposedIsTerminal ==
    /\ [](lastOp = "dispose"
            => /\ gl = NULL /\ program = NULL /\ meshBuffers = NULL
               /\ state.animationFrameId = NoFrame
               /\ ~state.isRunning)
    /\ [][(disposed
             /\ lastOp' \in {"start", "stop", "resize", "updateConfig"})
            => /\ state'.isRunning = state.isRunning
               /\ state'.animationFrameId = state.animationFrameId
               /\ rafQueue' = rafQueue
               /\ scheduled' = 0]_vars

\* C8: the draw call of the frame that follows an updateConfig(partial) is
\* issued with the cycle speed, the grain intensity and the six colour
\* slots that the merged configuration determines; nothing of an
\* overridden field's former value is drawn.
C8_ConfigVisibleOnNextDraw ==
    [][(lastOp = "updateConfig" /\ lastOp' = "frame" /\ draws' # <<>>)
         => /\ glUniform'.cycleSpeed = config.cycleSpeed
            /\ glUniform'.grainIntensity = config.grainIntensity
            /\ "colors" \in DOMAIN lastArg
                  => \A i \in 1..6 :
                        glUniform'.color[i] = SlotOf(lastArg.colors, i)]_vars

\* C9: at every draw call colour slot i holds the RGB of the i-th entry of
\* the current config.colors when there is one (entries past the sixth are
\* ignored) and the default zero when there is none.
C9_ColorSlots ==
    draws # <<>> => \A i \in 1..6 : glUniform.color[i] = SlotOf(config.colors, i)

\* C10: updateConfig(partial) replaces exactly the fields partial holds,
\* keeps every other field, and changes neither the running flag, the frame
\* handle, the start timestamp nor a GPU handle; the constructor merges its
\* partial over DEFAULT_CONFIG in the same way.
C10_UpdateConfigMerges ==
    /\ [](lastOp = "constructor"
            => /\ DOMAIN config = DOMAIN DEFAULT_CONFIG
               /\ \A f \in DOMAIN config :
                     config[f] = IF f \in DOMAIN lastArg THEN lastArg[f]
                                 ELSE DEFAULT_CONFIG[f])
    /\ [][lastOp' = "updateConfig"
            => /\ DOMAIN config' = DOMAIN config
               /\ \A f \in DOMAIN config :
                     config'[f] = IF f \in DOMAIN lastArg' THEN lastArg'[f]
                                  ELSE config[f]
               /\ UNCHANGED <<state, gl, program, meshBuffers, uniforms,
                              rafQueue, gpu>>]_vars

\* a running engine whose cycle speed was changed gets new colours only
C10_Witness ==
    /\ lastOp = "updateConfig"
    /\ DOMAIN lastArg = {"colors"}
    /\ config.colors = WarmColors
    /\ config.cycleSpeed = 20
    /\ config.grainIntensity = 0
    /\ state.isRunning
    /\ Initialized

\* C11: over the whole life of an engine, stop() followed by start()
\* included, the elapsed time pushed as the time uniform at a draw call is
\* never less than the one pushed at the draw call before it.
C11_ElapsedNonDecreasing ==
    [][(draws' # <<>> /\ drawnTime # <<>>)
         => glUniform'.time >= drawnTime[1]]_vars

\* C12: on an initialized engine the backing buffer has the canvas's
\* display size right after resize(), and at every draw call the viewport
\* and the resolution uniform both have the backing buffer's size.
C12_ResizeReflected ==
    /\ (lastOp = "resize" /\ Initialized) => canvasSize = clientSize
    /\ (draws # <<>> /\ Initialized)
          => /\ viewport = canvasSize
             /\ glUniform.resolution = canvasSize

\* a frame is drawn at a size the canvas was resized to
C12_Witness ==
    /\ draws # <<>>
    /\ Initialized
    /\ canvasSize # DefaultCanvasSize
    /\ canvasSize = clientSize
    /\ viewport = canvasSize
    /\ glUniform.time > 0

\* C13: start() on a running engine changes nothing (same start timestamp,
\* no second callback); stop() on an engine that is not running changes
\* nothing and does not throw; start() followed by stop() leaves the engine
\* not running with a null frame handle.
C13_StartStopIdempotent ==
    /\ [][(lastOp' = "start" /\ state.isRunning)
            => /\ UNCHANGED <<engine, gpu, rafQueue>>
               /\ scheduled' = 0
               /\ result' = "ok"]_vars
    /\ [][(lastOp' = "stop" /\ ~state.isRunning)
            => /\ UNCHANGED <<engine, gpu, rafQueue>>
               /\ result' = "ok"]_vars
    /\ [][(lastOp = "start" /\ lastOp' = "stop")
            => /\ ~state'.isRunning
               /\ state'.animationFrameId = NoFrame
               /\ rafQueue' = {}]_vars

\* an initialized engine started at a later time has been stopped
C13_Witness ==
    /\ lastOp = "stop"
    /\ Initialized
    /\ state.startTime > 0
    /\ ~state.isRunning
    /\ state.animationFrameId = NoFrame
    /\ drawnTime # <<>>

\* C14: for an engine whose initialize() returned true, the vertex buffer,
\* the index buffer and the program have each been deleted once when
\* dispose() has been called and not at all before, and only the first
\* dispose() deletes anything.
C14_DisposeDeletesOnce ==
    /\ [](initResult = "true"
            => \A o \in {"vertexBuffer", "indexBuffer", "program"} :
                  deleted[o] = IF disposed THEN 1 ELSE 0)
    /\ [][(initResult' = "true" /\ deleted' # deleted)
            => (lastOp' = "dispose" /\ ~disposed)]_vars

\* an engine that has drawn is disposed of: buffers and program are gone
C14_Witness ==
    /\ lastOp = "dispose"
    /\ initResult = "true"
    /\ drawnTime # <<>>
    /\ deleted["vertexBuffer"] = 1
    /\ deleted["indexBuffer"] = 1
    /\ deleted["program"] = 1
    /\ live = {"vertexShader", "fragmentShader"}

\* C15: every engine a mount creates, whether its initialize() returned
\* true, returned false or threw, has had dispose() called on it exactly
\* once when the component has unmounted, and not at all before.
C15_DisposedOnceAtUnmount ==
    calls.dispose = IF mount = "unmounted" THEN 1 ELSE 0

\* C16: once a mounted component whose engine initialized has handled a
\* visibilitychange event, the engine is running exactly when the document
\* is visible.
C16_VisibilityForwarded ==
    (event = "visibilitychange" /\ mount = "mounted" /\ initResult = "true")
        => (state.isRunning <=> ~hidden)

\* C17: when initialize() returns false or throws in the mount effect, the
\* fallback is shown, no exception leaves the effect, start() and onInit
\* are never called and no engine is stored, whatever happens later.
C17_FailureAbsorbed ==
    initResult \in {"false", "threw"}
        => /\ hasError
           /\ ~propagated
           /\ ~calls.start
           /\ ~state.isRunning
           /\ calls.onInit = 0
           /\ rendererRef = NULL
           /\ ~isInitialized

\* a component whose engine threw in initialize() sees the document shown
C17_Witness ==
    /\ initResult = "threw"
    /\ mount = "mounted"
    /\ event = "visibilitychange"
    /\ ~hidden
    /\ props.autoStart
    /\ hasError
    /\ calls.onError = 1

\* C18: onError has been called once when initialize() returned false or
\* threw, and not at all when it returned true.
C18_OnErrorOnFailure ==
    initResult # "none"
        => calls.onError = IF initResult \in {"false", "threw"} THEN 1 ELSE 0

\* Math.round(255 * channel) for the channel b / 255 kept as its byte b
RoundTimes255(channel) == (2 * 255 * channel + 255) \div (2 * 255)

\* C19: for a string written from three bytes (with or without '#', in
\* either case) hexToRGB returns channels within [0, 1] that give the
\* three bytes back when multiplied by 255 and rounded.
C19_HexRoundTrip ==
    (hexOut.called /\ hexFrom # <<>>)
        => /\ ~hexOut.threw
           /\ \A ch \in {hexOut.rgb.r, hexOut.rgb.g, hexOut.rgb.b} :
                 0 <= ch /\ ch <= 255
           /\ <<RoundTimes255(hexOut.rgb.r), RoundTimes255(hexOut.rgb.g),
                RoundTimes255(hexOut.rgb.b)>> = hexFrom

\* an upper-case string without '#' has been converted
C19_Witness ==
    /\ hexOut.called
    /\ hexFrom = <<170, 254, 16>>
    /\ hexIn = <<"A", "A", "F", "E", "1", "0">>
    /\ hexOut.rgb = [r |-> 170, g |-> 254, b |-> 16]

\* the hex digits, in either case
HexDigitChars ==
    {"0", "1", "2", "3", "4", "5", "6", "7", "8", "9",
     "a", "b", "c", "d", "e", "f", "A", "B", "C", "D", "E", "F"}

\* an optional '#' followed by exactly six hex digits
SixHexDigits(str) ==
    \E hash \in {<<>>, <<"#">>} :
        /\ Len(str) = Len(hash) + 6
        /\ \A i \in 1..Len(hash) : str[i] = hash[i]
        /\ \A i \in (Len(hash) + 1)..Len(str) : str[i] \in HexDigitChars

\* C20: hexToRGB returns a colour for exactly the strings made of an
\* optional '#' and six hex digits, and fails with an error for every
\* other string.
C20_AcceptsExactlySixHexDigits ==
    hexOut.called => (hexOut.threw <=> ~SixHexDigits(hexIn))

\* a string with one character after the six digits has been rejected
C20_Witness ==
    /\ hexOut.called
    /\ hexOut.threw
    /\ hexIn = <<"#", "0", "F", "0", "F", "0", "F", "0">>

\* values of the shader's random(), a hash of pixel and time within [0, 1),
\* in thousandths
RandomValues == {0, 1, 500, 999}

\* the shader's grain term: random(uv * 100.0 + u_time * 0.01) times
\* u_grainIntensity (in hundred-thousandths)
Grain(randomValue, grainIntensity) == randomValue * grainIntensity

\* C22: when config.grainIntensity is 0, the grain-intensity uniform at
\* every draw call is 0 and the grain term the shader adds to each channel
\* is 0 whatever the hash of pixel and time gives.
C22_NoGrainAtZero ==
    (draws # <<>> /\ config.grainIntensity = 0)
        => /\ glUniform.grainIntensity = 0
           /\ \A h \in RandomValues : Grain(h, glUniform.grainIntensity) = 0

\* a frame is drawn with the grain switched off by a grain intensity of 0
C22_Witness ==
    /\ draws # <<>>
    /\ Initialized
    /\ config.grainIntensity = 0
    /\ glUniform.grainIntensity = 0
    /\ glUniform.time > 0

\* C26: whatever colour lists were supplied at construction and to
\* updateConfig, no frame callback throws while pushing the uniforms, and
\* an engine started after a successful initialize() that is running has
\* its callback pending.
C26_MalformedRejected ==
    /\ lastOp = "frame" => result # "threw"
    /\ (startedReady /\ state.isRunning) => rafQueue # {}

\* C29: at most one frame callback of the engine is pending at any time,
\* and a start() that sets the engine running (as after a stop()) leaves
\* exactly one pending.
C29_OneCallbackPending ==
    /\ Cardinality(rafQueue) <= 1
    /\ (lastOp = "start" /\ scheduled = 1) => Cardinality(rafQueue) = 1

\* an engine that has drawn and was stopped is started again later
C29_Witness ==
    /\ lastOp = "start"
    /\ scheduled = 1
    /\ Initialized
    /\ drawnTime # <<>>
    /\ state.startTime > 0
    /\ rafQueue = {state.animationFrameId}

\* C30: when initialize() returns false, no GPU object it created is left
\* allocated.
C30_PartialFailureCleansUp ==
    (lastOp = "initialize" /\ result = "false") => live = {}

\* C28: while the document is hidden, the engine of a mounted
\* AnimatedGradient with autoStart is not running and issues no draw call,
\* also when the component was mounted while the document was hidden.
C28_PausedWhileHidden ==
    [][(hidden /\ hidden' /\ mount' = "mounted" /\ props.autoStart)
           => (~state.isRunning' /\ draws' = draws)]_vars

\* C23: the grain intensity a draw call hands to the shader is
\* config.grainIntensity when config.enableGrain is set and 0 when it is
\* not.
C23_EnableGrainControls ==
    draws # <<>>
        => glUniform.grainIntensity
              = IF config.enableGrain THEN config.grainIntensity ELSE 0

\* C25: the object getState() returns has null context and program handles
\* after construction, non-null ones after initialize() returned true, null
\* ones after dispose(); getState() and isRunning() change nothing of the
\* engine, the GPU or the host; assigning to the returned object changes
\* nothing of the engine.
C25_GetStateObserves ==
    [][/\ lastOp' = "getState"
           => /\ initResult = "none" \/ disposed
                  => snapshot'[1].gl = NULL /\ snapshot'[1].program = NULL
              /\ Initialized
                  => snapshot'[1].gl # NULL /\ snapshot'[1].program # NULL
       /\ lastOp' \in {"getState", "isRunning", "mutateSnapshot"}
           => <<engine, gpu, host>>' = <<engine, gpu, host>>]_vars

\* C21: interpolateColor(a, b, 0) is a and interpolateColor(a, b, 1) is b,
\* channel by channel.
C21_InterpolateEndpoints ==
    fn = "interpolateColor"
        => /\ args.t = 0 => value[1] = args.color1
           /\ args.t = One => value[1] = args.color2

\* C24: for each preset, the cycle phase of a draw fullCycleDuration later
\* is the cycle phase of the draw.
C24_FullCycleIsPeriod ==
    fn = "cyclePhase" => value[2] = value[1]

\* the palette segment the position t lies in, 0..5, and how many
\* subdivisions into it
SegmentOf(t) == (t % (6 * Subdivisions)) \div Subdivisions

FractionOf(t) == (t % (6 * Subdivisions)) % Subdivisions

\* C27: blendColors at a position in segment k is the linear mix of stop
\* k + 1 and stop ((k + 1) mod 6) + 1 at the position's fraction of the
\* segment; at the start of segment k it is exactly stop k + 1; in the last
\* segment it blends stop 6 back to stop 1; one whole turn further it is
\* the same colour.
C27_BlendColorsSegments ==
    fn = "blendColors"
        => LET k == SegmentOf(args.t)
               f == FractionOf(args.t)
               from == args.stops[k + 1]
               to == args.stops[((k + 1) % 6) + 1]
           IN  /\ k \in 0..5
               /\ value[1] = mix(from, to, f)
               /\ f = 0 => value[1] = mix(from, from, 0)
               /\ k = 5 => value[1] = mix(args.stops[6], args.stops[1], f)
               /\ blendColors(args.stops, args.t + 6 * Subdivisions) = value[1]

\* a position before 0, in the middle of the last segment
C27_Witness ==
    /\ fn = "blendColors"
    /\ args.t < 0
    /\ SegmentOf(args.t) = 5
    /\ FractionOf(args.t) = 2
    /\ value[1] # mix(args.stops[6], args.stops[6], 0)
    /\ value[1] # mix(args.stops[1], args.stops[1], 0)

====
